---------------------------- MODULE Spec2Model ----------------------------
(***************************************************************************)
(* Model of src/app.py: a Streamlit page that saves uploaded videos to a   *)
(* scratch directory, extracts their audio with moviepy, and offers the    *)
(* results as a single download or a zip archive.                          *)
(*                                                                         *)
(* Streamlit re-executes the script top to bottom on every interaction.    *)
(* One script run is modelled as a chain of steps (pc), cut wherever the   *)
(* script touches the scratch directory, which every session shares.       *)
(*                                                                         *)
(* A filename "a.mp4" is the pair <<"a", "mp4">>; a path "temp/a.mp4" is    *)
(* <<"temp", "a", "mp4">>.                                                  *)
(***************************************************************************)
EXTENDS Integers, Sequences, FiniteSets, TLC

\* ------------------------------------------------------------- bounds
\* Longest batch a user selects in the uploader.
MaxFiles == 2
\* Longest batch in the two-session specification.
MaxSharedFiles == 1

\* ------------------------------------------------------ input universe
Sessions == {1, 2}
\* Three filenames with extensions the uploader accepts (type=[...]): two that
\* differ only in the extension, and a third.
Names == {<<"a", "mp4">>, <<"a", "mov">>, <<"b", "mp4">>}
\* What moviepy finds in an uploaded container:
\*   audio    - opens, has an audio track, encodes
\*   noaudio  - opens, video_clip.audio is None
\*   badopen  - VideoFileClip(video_path) raises
\*   badwrite - opens, has an audio track, write_audiofile raises
Contents == {"audio", "noaudio", "badopen", "badwrite"}
\* The files a user may pick.
UploadedFile == [name : Names, content : Contents]
\* The two-session specification: both users pick among files called a.mp4.
SharedFile == [name : {<<"a", "mp4">>}, content : {"audio", "noaudio"}]

VARIABLES
    session_state,       \* st.session_state of each session: a function on the keys present
    fs,                  \* the scratch directory: a function on the paths that exist
    pc,                  \* where each session's script run stands
    idx,                 \* position of the batch loop in uploaded_files
    output_audio_paths,  \* the batch loop's local list
    batch_log,           \* per file of the running batch: what convert_to_audio saw and returned
    clips,               \* handles the last convert_to_audio call opened and did not close
    errors,              \* names shown by st.error in the current run
    download,            \* the st.download_button of the current render
    exception            \* the uncaught exception that ended the current run, or "none"

vars == <<session_state, fs, pc, idx, output_audio_paths, batch_log, clips,
          errors, download, exception>>

\* ---------------------------------------------------------- os.path
temp_dir == "temp"

os_path_join(dir, name) == <<dir>> \o name

os_path_basename(path) == Tail(path)

\* os.path.splitext: (root, extension).
os_path_splitext(name) == <<name[1], name[2]>>

\* f"{file_name}.mp3"
Mp3Name(file_name) == <<file_name, "mp3">>

\* ------------------------------------------------------- filesystem
Exists(disk, path) == path \in DOMAIN disk

\* open(path, "wb").write(...) and write_audiofile: create or overwrite.
WriteFile(disk, path, data) ==
    [p \in DOMAIN disk \cup {path} |-> IF p = path THEN data ELSE disk[p]]

\* os.remove on an existing path.
RemoveFile(disk, path) == [p \in DOMAIN disk \ {path} |-> disk[p]]


\* Removes the paths in order; stops at the first that does not exist, as the
\* FileNotFoundError of os.remove ends the loop with the earlier removals done.
RECURSIVE RemoveAll(_, _)
RemoveAll(disk, paths) ==
    IF paths = <<>> THEN [disk |-> disk, ok |-> TRUE]
    ELSE IF ~Exists(disk, Head(paths)) THEN [disk |-> disk, ok |-> FALSE]
    ELSE RemoveAll(RemoveFile(disk, Head(paths)), Tail(paths))

\* ------------------------------------------------- convert_to_audio
\* What VideoFileClip finds at video_path: the content on disk, which is the
\* session's own upload unless another session wrote or removed the file.
ContentAt(disk, video_path) ==
    IF Exists(disk, video_path) THEN disk[video_path].content ELSE "badopen"

\* convert_to_audio without its try/except: the library's exception escapes.
convert_to_audio_reraise(disk, video_path, output_audio_path) ==
    LET content == ContentAt(disk, video_path)
    IN  IF content \in {"audio", "noaudio"}
        THEN [ret |-> TRUE, raised |-> FALSE,
              disk |-> IF content = "audio"
                       THEN WriteFile(disk, output_audio_path,
                                      [content |-> "mp3", by |-> disk[video_path].by])
                       ELSE disk,
              error |-> {}, opened |-> {"video_clip"}, closed |-> {"video_clip"}]
        ELSE [ret |-> FALSE, raised |-> TRUE, disk |-> disk, error |-> {},
              opened |-> {"video_clip"}, closed |-> {}]

\* The function's outcome: its return value, whether an exception escaped it,
\* the disk it leaves, the name it reported with st.error, and the handles it
\* opened and closed.
convert_to_audio(disk, video_path, output_audio_path) ==
    LET content == ContentAt(disk, video_path)
        failed(opened) ==
            [ret |-> FALSE, raised |-> FALSE, disk |-> disk,
             error |-> {os_path_basename(video_path)},
             opened |-> opened, closed |-> {}]
    IN  CASE content = "audio" ->
                [ret |-> TRUE, raised |-> FALSE,
                 disk |-> WriteFile(disk, output_audio_path,
                                    [content |-> "mp3", by |-> disk[video_path].by]),
                 error |-> {},
                 opened |-> {"video_clip", "audio_clip"},
                 closed |-> {"audio_clip", "video_clip"}]
          [] content = "noaudio" ->
                [ret |-> TRUE, raised |-> FALSE, disk |-> disk, error |-> {},
                 opened |-> {"video_clip"}, closed |-> {"video_clip"}]
          [] content = "badwrite" -> failed({"video_clip", "audio_clip"})
          [] OTHER -> failed({})

\* ---------------------------------------------------- reset_app_state
\* The two del statements: the keys 'processed_files' and 'uploaded_files'
\* leave the session state; every other key stays.
reset_app_state(state) ==
    [k \in DOMAIN state \ {"processed_files", "uploaded_files"} |-> state[k]]

\* ------------------------------------------------------ script state
\* The uploader's value: the widget is registered under key "file_uploader".
uploaded_files(s) == session_state[s]["file_uploader"]

uploaded_file(s) == uploaded_files(s)[idx[s]]

\* video_path with the session's id in front of the filename.
video_path_per_session(s) ==
    os_path_join(temp_dir, <<ToString(s) \o "_" \o uploaded_file(s).name[1],
                             uploaded_file(s).name[2]>>)

video_path(s) == os_path_join(temp_dir, uploaded_file(s).name)

\* The output path the loop derives from an uploaded filename.
OutputPathOf(name) == os_path_join(temp_dir, Mp3Name(os_path_splitext(name)[1]))

output_audio_path(s) == OutputPathOf(uploaded_file(s).name)

\* The condition of the download section.
HasProcessed(s) ==
    /\ "processed_files" \in DOMAIN session_state[s]
    /\ session_state[s]["processed_files"] # <<>>

NoDownload ==
    [kind |-> "none", file_name |-> <<>>, mime |-> "", entries |-> <<>>, by |-> {}]

SingleDownload(disk, path) ==
    [kind |-> "single", file_name |-> os_path_basename(path), mime |-> "audio/mpeg",
     entries |-> <<>>, by |-> {disk[path].by}]

ZipDownload(disk, paths) ==
    [kind |-> "zip", file_name |-> <<"audios_convertidos", "zip">>,
     mime |-> "application/zip",
     entries |-> [i \in DOMAIN paths |-> os_path_basename(paths[i])],
     by |-> {disk[paths[i]].by : i \in DOMAIN paths}]

\* A script run starts on an empty page.
FreshPage(s) ==
    /\ errors' = [errors EXCEPT ![s] = {}]
    /\ download' = [download EXCEPT ![s] = NoDownload]
    /\ exception' = [exception EXCEPT ![s] = "none"]

\* An uncaught exception ends the run; Streamlit keeps the session state.
Raise(s, what) ==
    /\ exception' = [exception EXCEPT ![s] = what]
    /\ pc' = [pc EXCEPT ![s] = "idle"]

Init ==
    /\ session_state = [s \in Sessions |-> [file_uploader |-> <<>>]]
    /\ fs = <<>>
    /\ pc = [s \in Sessions |-> "idle"]
    /\ idx = [s \in Sessions |-> 1]
    /\ output_audio_paths = [s \in Sessions |-> <<>>]
    /\ batch_log = [s \in Sessions |-> <<>>]
    /\ clips = [s \in Sessions |-> {}]
    /\ errors = [s \in Sessions |-> {}]
    /\ download = [s \in Sessions |-> NoDownload]
    /\ exception = [s \in Sessions |-> "none"]

\* ------------------------------------------------------ interactions
\* The user adds a file to the uploader's selection (accept_multiple_files).
\* The script reruns with no button pressed and falls through to the download
\* section.
UploadFile(s, file, max) ==
    /\ pc[s] = "idle"
    /\ Len(uploaded_files(s)) < max
    /\ session_state' = [session_state EXCEPT ![s]["file_uploader"] = Append(@, file)]
    /\ pc' = [pc EXCEPT ![s] = "deliver"]
    /\ FreshPage(s)
    /\ UNCHANGED <<fs, idx, output_audio_paths, batch_log, clips>>

\* The user takes a file out of the selection; the script reruns likewise.
RemoveUpload(s, i) ==
    /\ pc[s] = "idle"
    /\ i \in DOMAIN uploaded_files(s)
    /\ session_state' = [session_state EXCEPT ![s]["file_uploader"] =
           SubSeq(@, 1, i - 1) \o SubSeq(@, i + 1, Len(@))]
    /\ pc' = [pc EXCEPT ![s] = "deliver"]
    /\ FreshPage(s)
    /\ UNCHANGED <<fs, idx, output_audio_paths, batch_log, clips>>

\* The user presses the download button: Streamlit serves the data it holds
\* and reruns the script with no button of the page pressed.
ClickDownload(s) ==
    /\ pc[s] = "idle"
    /\ download[s].kind # "none"
    /\ pc' = [pc EXCEPT ![s] = "deliver"]
    /\ FreshPage(s)
    /\ UNCHANGED <<session_state, fs, idx, output_audio_paths, batch_log, clips>>

\* "Volver a empezar": reset_app_state, whose st.rerun() starts a new run.
ClickReset(s) ==
    /\ pc[s] = "idle"
    /\ session_state' = [session_state EXCEPT ![s] = reset_app_state(@)]
    /\ pc' = [pc EXCEPT ![s] = "deliver"]
    /\ FreshPage(s)
    /\ UNCHANGED <<fs, idx, output_audio_paths, batch_log, clips>>

\* "Convertir a Audio": the button is disabled while nothing is uploaded. The
\* run enters the convert branch and its loop.
ClickConvert(s) ==
    /\ pc[s] = "idle"
    /\ uploaded_files(s) # <<>>
    /\ idx' = [idx EXCEPT ![s] = 1]
    /\ output_audio_paths' = [output_audio_paths EXCEPT ![s] = <<>>]
    /\ batch_log' = [batch_log EXCEPT ![s] = <<>>]
    /\ pc' = [pc EXCEPT ![s] = "save"]
    /\ FreshPage(s)
    /\ UNCHANGED <<session_state, fs, clips>>

\* ------------------------------------------------------- batch loop
\* open(video_path, "wb"): the upload's bytes go to the scratch directory.
SaveUpload(s) ==
    /\ pc[s] = "save"
    /\ fs' = WriteFile(fs, video_path(s),
                       [content |-> uploaded_file(s).content, by |-> s])
    /\ pc' = [pc EXCEPT ![s] = "extract"]
    /\ UNCHANGED <<session_state, idx, output_audio_paths, batch_log, clips,
                   errors, download, exception>>

\* The output path, the call of convert_to_audio and the append.
Extract(s) ==
    /\ pc[s] = "extract"
    /\ LET r == convert_to_audio(fs, video_path(s), output_audio_path(s))
       IN  /\ fs' = r.disk
           /\ clips' = [clips EXCEPT ![s] = r.opened \ r.closed]
           /\ errors' = [errors EXCEPT ![s] = @ \cup r.error]
           /\ batch_log' = [batch_log EXCEPT ![s] =
                  Append(@, [name |-> uploaded_file(s).name,
                             content |-> ContentAt(fs, video_path(s)),
                             appended |-> ~r.raised /\ r.ret])]
           /\ IF r.raised
              THEN /\ Raise(s, "convert_to_audio")
                   /\ UNCHANGED output_audio_paths
              ELSE /\ output_audio_paths' = [output_audio_paths EXCEPT ![s] =
                          IF r.ret THEN Append(@, output_audio_path(s)) ELSE @]
                   /\ pc' = [pc EXCEPT ![s] = "remove"]
                   /\ UNCHANGED exception
    /\ UNCHANGED <<session_state, idx, download>>

\* The loop's last statement moved under the if: the video is removed only
\* when convert_to_audio returned True.
RemoveVideoOnSuccess(s) ==
    /\ pc[s] = "remove"
    /\ fs' = IF batch_log[s][Len(batch_log[s])].appended
             THEN RemoveFile(fs, video_path(s)) ELSE fs
    /\ idx' = [idx EXCEPT ![s] = @ + 1]
    /\ pc' = [pc EXCEPT ![s] =
           IF idx[s] < Len(uploaded_files(s)) THEN "save" ELSE "batch_end"]
    /\ UNCHANGED <<session_state, output_audio_paths, batch_log, clips, errors,
                   download, exception>>

\* os.remove(video_path), then the next file or the end of the loop.
RemoveVideo(s) ==
    /\ pc[s] = "remove"
    /\ IF Exists(fs, video_path(s))
       THEN /\ fs' = RemoveFile(fs, video_path(s))
            /\ idx' = [idx EXCEPT ![s] = @ + 1]
            /\ pc' = [pc EXCEPT ![s] =
                   IF idx[s] < Len(uploaded_files(s)) THEN "save" ELSE "batch_end"]
            /\ UNCHANGED exception
       ELSE /\ Raise(s, "os.remove(video_path)")
            /\ UNCHANGED <<fs, idx>>
    /\ UNCHANGED <<session_state, output_audio_paths, batch_log, clips, errors, download>>

\* After the loop: with outputs, store them and st.rerun(); with none, go on
\* to the download section in the same run. The loop's locals end here.
BatchEnd(s) ==
    /\ pc[s] = "batch_end"
    /\ IF output_audio_paths[s] # <<>>
       THEN /\ session_state' = [session_state EXCEPT ![s] =
                   [k \in DOMAIN @ \cup {"processed_files"} |->
                       IF k = "processed_files" THEN output_audio_paths[s] ELSE @[k]]]
            /\ FreshPage(s)
       ELSE UNCHANGED <<session_state, errors, download, exception>>
    /\ idx' = [idx EXCEPT ![s] = 1]
    /\ output_audio_paths' = [output_audio_paths EXCEPT ![s] = <<>>]
    /\ batch_log' = [batch_log EXCEPT ![s] = <<>>]
    /\ pc' = [pc EXCEPT ![s] = "deliver"]
    /\ UNCHANGED <<fs, clips>>

\* -------------------------------------------------- download section
\* Up to the download button: one file is opened and handed over, several are
\* written into the in-memory zip. A missing file raises FileNotFoundError.
Deliver(s) ==
    /\ pc[s] = "deliver"
    /\ IF ~HasProcessed(s)
       THEN /\ pc' = [pc EXCEPT ![s] = "idle"]
            /\ UNCHANGED <<download, exception>>
       ELSE LET processed_files == session_state[s]["processed_files"]
            IN  IF \E i \in DOMAIN processed_files : ~Exists(fs, processed_files[i])
                THEN /\ Raise(s, IF Len(processed_files) = 1
                                 THEN "open(single_file_path)" ELSE "zip_file.write")
                     /\ UNCHANGED download
                ELSE /\ download' = [download EXCEPT ![s] =
                            IF Len(processed_files) = 1
                            THEN SingleDownload(fs, processed_files[1])
                            ELSE ZipDownload(fs, processed_files)]
                     /\ pc' = [pc EXCEPT ![s] = "cleanup"]
                     /\ UNCHANGED exception
    /\ UNCHANGED <<session_state, fs, idx, output_audio_paths, batch_log, clips, errors>>

\* After the download button: os.remove of every delivered file, then
\* del st.session_state['processed_files'].
DeliverCleanup(s) ==
    /\ pc[s] = "cleanup"
    /\ LET processed_files == session_state[s]["processed_files"]
           r == RemoveAll(fs, processed_files)
       IN  /\ fs' = r.disk
           /\ IF r.ok
              THEN /\ session_state' = [session_state EXCEPT ![s] =
                          [k \in DOMAIN @ \ {"processed_files"} |-> @[k]]]
                   /\ pc' = [pc EXCEPT ![s] = "idle"]
                   /\ UNCHANGED exception
              ELSE /\ Raise(s, IF Len(processed_files) = 1
                               THEN "os.remove(single_file_path)"
                               ELSE "os.remove(file_path)")
                   /\ UNCHANGED session_state
    /\ UNCHANGED <<idx, output_audio_paths, batch_log, clips, errors, download>>

\* ---------------------------------------------------- specifications
RunStep(s) ==
    \/ \E i \in DOMAIN uploaded_files(s) : RemoveUpload(s, i)
    \/ ClickDownload(s)
    \/ ClickReset(s)
    \/ ClickConvert(s)
    \/ SaveUpload(s)
    \/ Extract(s)
    \/ RemoveVideo(s)
    \/ BatchEnd(s)
    \/ Deliver(s)
    \/ DeliverCleanup(s)

\* One user: the script runs of a session are serialised by Streamlit.
Next ==
    \/ \E file \in UploadedFile : UploadFile(1, file, MaxFiles)
    \/ RunStep(1)

Spec == Init /\ [][Next]_vars

\* Two users of one server process: their script runs interleave, and both
\* use the scratch directory "temp".
NextShared ==
    \E s \in Sessions :
        \/ \E file \in SharedFile : UploadFile(s, file, MaxSharedFiles)
        \/ RunStep(s)

SpecShared == Init /\ [][NextShared]_vars

\* ------------------------------------------------------------ claims
AudioArtifacts(disk) == {p \in DOMAIN disk : disk[p].content = "mp3"}

VideoArtifacts(disk) == {p \in DOMAIN disk : disk[p].content # "mp3"}

InBatch(s) == pc[s] \in {"save", "extract", "remove", "batch_end"}

\* C1: a file without an audio track adds no entry to the list of output paths.
C1_NoAudioAddsNoOutput ==
    \A s \in Sessions :
        InBatch(s) =>
            \A i \in DOMAIN batch_log[s] :
                batch_log[s][i].content = "noaudio" => ~batch_log[s][i].appended

\* C2: the download section shows no control for 0 held outputs, the single
\* audio/mpeg download named after the output for 1, and the zip download
\* audios_convertidos.zip for more than 1.
C2_ShapeFollowsCount ==
    [][\A s \in Sessions :
          Deliver(s) =>
              IF ~HasProcessed(s) THEN download'[s].kind = "none"
              ELSE IF Len(session_state[s]["processed_files"]) = 1
              THEN /\ download'[s].kind = "single"
                   /\ download'[s].mime = "audio/mpeg"
                   /\ download'[s].file_name =
                          os_path_basename(session_state[s]["processed_files"][1])
              ELSE /\ download'[s].kind = "zip"
                   /\ download'[s].mime = "application/zip"
                   /\ download'[s].file_name = <<"audios_convertidos", "zip">>]_vars

\* C3: a delivered archive has one entry per output, each named by the
\* output's base filename, and no two entries share a name.
C3_ArchiveEntriesDistinct ==
    \A s \in Sessions :
        download[s].kind = "zip" =>
            \A i, j \in DOMAIN download[s].entries :
                i # j => download[s].entries[i] # download[s].entries[j]

\* C4: once a render has shown a download and ended, the delivered audio
\* artifacts are off the scratch directory and the processed-file list is gone
\* from the session state.
C4_DeliveryClearsEverything ==
    \A s \in Sessions :
        (pc[s] = "idle" /\ download[s].kind # "none") =>
            /\ "processed_files" \notin DOMAIN session_state[s]
            /\ \A p \in AudioArtifacts(fs) :
                   os_path_basename(p) # download[s].file_name
                   /\ \A i \in DOMAIN download[s].entries :
                          os_path_basename(p) # download[s].entries[i]

\* C5: the reset action leaves no processed-file list and an empty upload
\* selection (so the convert button is disabled).
C5_ResetEmptiesSelection ==
    [][\A s \in Sessions :
          ClickReset(s) =>
              /\ "processed_files" \notin DOMAIN session_state'[s]
              /\ session_state'[s]["file_uploader"] = <<>>]_vars

\* C6: a file whose extraction raises is reported by name, adds nothing to the
\* output list, and the loop goes on: no exception leaves the loop, and at the
\* end of the batch every uploaded file has been through convert_to_audio.
C6_FailureIsReportedAndSkipped ==
    \A s \in Sessions :
        /\ exception[s] \notin {"convert_to_audio", "os.remove(video_path)"}
        /\ InBatch(s) =>
              /\ \A i \in DOMAIN batch_log[s] :
                     batch_log[s][i].content \in {"badopen", "badwrite"} =>
                         /\ ~batch_log[s][i].appended
                         /\ batch_log[s][i].name \in errors[s]
              /\ Len(output_audio_paths[s]) =
                     Cardinality({i \in DOMAIN batch_log[s] : batch_log[s][i].appended})
        /\ pc[s] = "batch_end" =>
              /\ Len(batch_log[s]) = Len(uploaded_files(s))
              /\ \A i \in DOMAIN batch_log[s] :
                     batch_log[s][i].name = uploaded_files(s)[i].name

\* A batch has ended whose first file failed and whose second file produced an
\* output.
C6_Witness ==
    /\ pc[1] = "batch_end"
    /\ Len(batch_log[1]) = 2
    /\ batch_log[1][1].content \in {"badopen", "badwrite"}
    /\ batch_log[1][2].content = "audio"
    /\ Len(output_audio_paths[1]) = 1

\* C7: the temporary video is on the scratch directory only between its write
\* and the os.remove that follows its extraction attempt; none is left when
\* the batch completes.
C7_VideoRemovedAfterEachAttempt ==
    VideoArtifacts(fs) =
        {video_path(s) : s \in {u \in Sessions : pc[u] \in {"extract", "remove"}}}

\* A batch has ended in which one extraction failed and another succeeded.
C7_Witness ==
    /\ pc[1] = "batch_end"
    /\ \E i, j \in DOMAIN batch_log[1] :
           /\ batch_log[1][i].appended
           /\ batch_log[1][j].content \in {"badopen", "badwrite"}
    /\ VideoArtifacts(fs) = {}

\* C8: convert_to_audio has closed every clip handle it opened when it returns.
C8_EveryHandleClosed ==
    \A s \in Sessions : clips[s] = {}

\* C9: a reset leaves no audio artifact on the scratch directory.
C9_ResetLeavesNoAudio ==
    [][\A s \in Sessions : ClickReset(s) => AudioArtifacts(fs') = {}]_vars

\* C10: scratch paths come from the filename alone. Whenever two sessions are
\* both between the write and the removal of the video of uploads with the
\* same filename, one artifact serves both: for one of the two sessions the
\* file at its video_path holds the other session's bytes.
C10_SameNameSharesArtifact ==
    \A s, t \in Sessions :
        (/\ s # t
         /\ pc[s] \in {"extract", "remove"}
         /\ pc[t] \in {"extract", "remove"}
         /\ uploaded_file(s).name = uploaded_file(t).name) =>
            \E u \in {s, t} :
                /\ Exists(fs, video_path(u))
                /\ fs[video_path(u)].by # u

\* One session's os.remove(video_path) has failed because the other session
\* removed the video first, and a session has been handed audio extracted
\* from the other session's upload.
C10_Witness ==
    \E s, t \in Sessions :
        /\ s # t
        /\ exception[s] = "os.remove(video_path)"
        /\ download[t].kind = "single"
        /\ download[t].by = {s}

\* C11: when the batch loop has ended, the processed-file list is stored (and
\* the rerun started) exactly when the batch produced at least one audio
\* output; a batch that produced none leaves no list in the session state.
C11_ReadyIffOutputProduced ==
    [][\A s \in Sessions :
          BatchEnd(s) =>
              IF \E i \in DOMAIN batch_log[s] : batch_log[s][i].content = "audio"
              THEN /\ "processed_files" \in DOMAIN session_state'[s]
                   /\ session_state'[s]["processed_files"] = output_audio_paths[s]
                   /\ pc'[s] = "deliver"
              ELSE "processed_files" \notin DOMAIN session_state'[s]]_vars

\* C12: no script run ends with the processed-file list still held: the
\* render that finds the list delivers it and clears it.
C12_NoRenderEndsStillReady ==
    \A s \in Sessions :
        pc[s] = "idle" => "processed_files" \notin DOMAIN session_state[s]

\* C13: at the end of a batch every upload with an audio track has its output
\* <stem>.mp3 on the scratch directory and in the list, and uploads with
\* different filenames have different outputs.
C13_OneDistinctOutputPerAudioFile ==
    \A s \in Sessions :
        pc[s] = "batch_end" =>
            \A i \in DOMAIN batch_log[s] :
                batch_log[s][i].content = "audio" =>
                    /\ OutputPathOf(batch_log[s][i].name) \in AudioArtifacts(fs)
                    /\ \E k \in DOMAIN output_audio_paths[s] :
                           output_audio_paths[s][k] = OutputPathOf(batch_log[s][i].name)
                    /\ \A j \in DOMAIN batch_log[s] :
                           (/\ batch_log[s][j].content = "audio"
                            /\ batch_log[s][j].name # batch_log[s][i].name) =>
                               OutputPathOf(batch_log[s][j].name) #
                                   OutputPathOf(batch_log[s][i].name)

\* C14: when the download section starts, every path of the processed-file
\* list is a file on the scratch directory.
C14_ListedFilesExistAtDelivery ==
    \A s \in Sessions :
        (pc[s] = "deliver" /\ HasProcessed(s)) =>
            \A i \in DOMAIN session_state[s]["processed_files"] :
                Exists(fs, session_state[s]["processed_files"][i])

=============================================================================
